---- MODULE Spec2Model ----
(***************************************************************************)
(* A model of the oz-docs command line tool (OpenZeppelin/docs-utils).     *)
(*                                                                         *)
(* One invocation of the script is modelled as a state machine: the main   *)
(* script body is a program counter `pc` that walks through the            *)
(* synchronous calls of the source (setupDocsDir, makePlaybook, build,     *)
(* startServer, watch), every subprocess being one step whose exit status  *)
(* is chosen by the environment.  In watch mode the Node event loop is     *)
(* modelled with a clock `now`, the pending timers of every debounced      *)
(* watcher, and the triggered action that currently blocks the process     *)
(* (spawnSync), if any.                                                    *)
(*                                                                         *)
(* Texts that the code splits or concatenates are sequences of one         *)
(* character strings; paths are sequences of path segments.                *)
(***************************************************************************)
EXTENDS Integers, Sequences, FiniteSets, TLC

VARIABLES
    \* ---- command line (minimist, part_000:241-251)
    command,        \* the positional command
    componentDirs,  \* the -c directories, in command-line order
    exact,          \* the --exact flag
    \* ---- the process
    run,            \* number of this invocation (SpecCli runs several)
    pc,             \* position of the main script body
    idx,            \* index of componentDirs.forEach
    exitCode,       \* -1 while the process lives, else its exit code
    log,            \* operations performed by this invocation, in order
    failed,         \* synchronizer subprocesses that exited non-zero
    rev1, rev2,     \* revisions recorded by setupDocsDir
    pkgVersion,     \* what require(package.json).version returned last
    docsVersion,    \* what getDocsVersion returned last
    playbook,       \* return value of makePlaybook (written this run?)
    gitRoots,       \* directories holding a .git directory, as findUp saw them
    cacheAtStart,   \* state of the cache directory when the invocation began
    \* ---- the file system
    cache,          \* the cache directory: "absent", "partial", "cloned"
    cacheRev,       \* HEAD of the clone
    symlink,        \* docsDir/build exists
    localPlaybook,  \* docsDir/local-playbook.yml: <<>> or <<content>>
    manifest,       \* dir -> antora.yml: <<>> or <<content>>
    nav,            \* dir -> modules/ROOT/nav.adoc
    index,          \* dir -> modules/ROOT/pages/index.adoc
    \* ---- watch mode
    serverPc,       \* "off", "checking", "listening"
    portBusy,       \* "unknown", "busy", "free": result of isPortReachable
    registered,     \* number of debounced watchers registered
    now,            \* the clock
    timers,         \* watcher -> due times of its pending setTimeout timers
    timeout,        \* watcher -> the closure variable `timeout` (-1: none)
    running,        \* watcher whose triggered action blocks the process, -1
    lastEventAt,    \* watcher -> time of its last event (-1: none)
    burst,          \* watcher -> events in its current burst
    actions,        \* watcher -> actions triggered for its current burst
    blocked         \* watcher -> an action started since its last event

cliVars   == <<command, componentDirs, exact>>
procVars  == <<run, pc, idx, exitCode, log, failed, rev1, rev2, pkgVersion,
               docsVersion, playbook, gitRoots, cacheAtStart>>
cacheVars == <<cache, cacheRev, symlink, localPlaybook>>
compVars  == <<manifest, nav, index>>
loopVars  == <<serverPc, portBusy, registered, now, timers, timeout, running,
               lastEventAt, burst, actions, blocked>>
vars      == <<cliVars, procVars, cacheVars, compVars, loopVars>>

(***************************************************************************)
(* Bounds of the model.                                                    *)
(***************************************************************************)
MaxDirs  == 2      \* at most this many -c options
MaxRev   == 1      \* upstream moves at most this many revisions
MaxTime  == 1500   \* the clock stops here
Quantum  == 250    \* granularity of the clock between timer deadlines
MaxBurst == 3      \* events counted in one burst
MaxRuns  == 2      \* invocations in SpecCli

(***************************************************************************)
(* Program constants.                                                      *)
(***************************************************************************)
Delay == 500       \* debounce(..., 500)

(***************************************************************************)
(* Texts.  "1.5.2" is <<"1", ".", "5", ".", "2">>.                         *)
(***************************************************************************)
Undefined == <<"u", "n", "d", "e", "f", "i", "n", "e", "d">>

RECURSIVE SplitAcc(_, _, _, _)
SplitAcc(s, sep, cur, acc) ==
    IF s = <<>> THEN Append(acc, cur)
    ELSE IF Head(s) = sep
         THEN SplitAcc(Tail(s), sep, <<>>, Append(acc, cur))
         ELSE SplitAcc(Tail(s), sep, Append(cur, Head(s)), acc)

\* String.prototype.split(sep)
split(s, sep) == SplitAcc(s, sep, <<>>, <<>>)

\* const [x, y, z] = ...: a missing element is undefined, and a template
\* literal prints it as "undefined"
Element(parts, i) == IF i <= Len(parts) THEN parts[i] ELSE Undefined

\* getDocsVersion with the `||` replaced by `&&`
getDocsVersionAnd(version, exactFlag) ==
    LET parts == split(version, ".")
        x == Element(parts, 1)
        y == Element(parts, 2)
    IN  IF x = <<"0">> /\ exactFlag
        THEN x \o <<".">> \o y
        ELSE x \o <<".", "x">>

getDocsVersion(version, exactFlag) ==
    LET parts == split(version, ".")
        x == Element(parts, 1)
        y == Element(parts, 2)
    IN  IF x = <<"0">> \/ exactFlag
        THEN x \o <<".">> \o y
        ELSE x \o <<".", "x">>

\* the versions package.json may hold, as <<X, Y, Z>>
VersionParts ==
    { << <<"0">>, <<"5">>, <<"2">> >>,
      << <<"1">>, <<"5">>, <<"2">> >>,
      << <<"2">>, <<"0">>, <<"0">> >>,
      << <<"1", "0">>, <<"1", "2">>, <<"3">> >> }
SemVer(v) == v[1] \o <<".">> \o v[2] \o <<".">> \o v[3]
PackageVersions == { SemVer(v) : v \in VersionParts }

(***************************************************************************)
(* Paths.  An absolute path starts with the segment "/".                   *)
(***************************************************************************)
Cwd == <<"/", "work", "repo", "pkg">>       \* process.cwd()

RECURSIVE normalize(_, _)
normalize(acc, p) ==
    IF p = <<>> THEN acc
    ELSE IF Head(p) = "." THEN normalize(acc, Tail(p))
    ELSE IF Head(p) = ".."
         THEN normalize(IF Len(acc) > 1 THEN SubSeq(acc, 1, Len(acc) - 1)
                        ELSE acc, Tail(p))
    ELSE normalize(Append(acc, Head(p)), Tail(p))

\* path.resolve(p) in the current directory
resolve(p) ==
    IF p # <<>> /\ Head(p) = "/" THEN normalize(<<"/">>, Tail(p))
    ELSE normalize(Cwd, p)

\* path.join(a, b)
join(a, b) ==
    IF a # <<>> /\ Head(a) = "/" THEN normalize(<<"/">>, Tail(a) \o b)
    ELSE normalize(<<>>, a \o b)

dirname(p) == SubSeq(p, 1, Len(p) - 1)
basename(p) == p[Len(p)]

RECURSIVE CommonLen(_, _)
CommonLen(a, b) ==
    IF a = <<>> \/ b = <<>> \/ Head(a) # Head(b) THEN 0
    ELSE 1 + CommonLen(Tail(a), Tail(b))

\* path.relative(from, to)
relative(from, to) ==
    LET f == resolve(from)
        t == resolve(to)
        k == CommonLen(f, t)
    IN  [i \in 1..(Len(f) - k) |-> ".."] \o SubSeq(t, k + 1, Len(t))

\* findUp.sync('.git', { type: 'directory' }): <<>> is undefined
RECURSIVE findUpFrom(_, _)
findUpFrom(dir, roots) ==
    IF dir \in roots THEN << Append(dir, ".git") >>
    ELSE IF Len(dir) <= 1 THEN <<>>
    ELSE findUpFrom(dirname(dir), roots)

findUp(roots) == findUpFrom(Cwd, roots)

\* where a .git directory may be
GitLayouts == SUBSET { <<"/", "work", "repo">>, <<"/", "work", "repo", "pkg">> }

\* the -c directories used
Dirs == { <<"docs">>, <<"..", "api">> }
DirLists == UNION { [1..n -> Dirs] : n \in 1..MaxDirs }

(***************************************************************************)
(* Files.  A file is <<>> when it does not exist and <<content>> when it   *)
(* does.  The content of a YAML file is the document it holds.             *)
(***************************************************************************)
NoValue == "<undefined>"      \* a key the document does not have

\* `a || b`: the empty string and undefined are falsy
Or(a, b) == IF a \in { NoValue, "" } THEN b ELSE a

Manifest(name, title, version, startPage, parsed) ==
    [ name |-> name, title |-> title, version |-> version,
      start_page |-> startPage, nav |-> << <<"modules", "ROOT", "nav.adoc">> >>,
      parsed |-> parsed ]

\* manifests already on disk before the tool runs
Tokens   == Manifest("tokens", <<"Tokens">>, <<"2", ".", "x">>, "guide.adoc", TRUE)
Sdk      == Manifest("sdk", <<"SDK">>, <<"0", ".", "9">>, "", TRUE)
Upgrades == Manifest("upgrades", <<"Upgrades">>, <<"1", ".", "x">>, NoValue, TRUE)
Garbage  == Manifest("", <<>>, <<>>, NoValue, FALSE)   \* not YAML

ManifestsOnDisk(d) ==
    IF d = <<"docs">> THEN { <<>>, <<Tokens>>, <<Sdk>>, <<Garbage>> }
    ELSE { <<>>, <<Upgrades>> }

UserText == <<"written by hand">>

\* fs.writeFileSync(file, contents) without the 'wx' flag
writeAlways(file, contents) == << contents >>

\* writeIfMissing: `file` is the file's state, the result its new state
writeIfMissing(file, contents) ==
    IF file = <<>> THEN << contents >> ELSE file

startCase(name) == <<"startCase", name>>

\* the three files init writes for the version `version`
initManifest(version) ==
    Manifest(basename(Cwd), startCase(basename(Cwd)), version, NoValue, TRUE)
initNav   == <<"* xref:index.adoc[Overview]\n">>
initIndex == <<"= ">> \o startCase(basename(Cwd)) \o <<"\n">>

(***************************************************************************)
(* The playbook.                                                           *)
(***************************************************************************)
\* playbook.yml of the shared repository, with and without a urls section
TemplateSources ==
    << [ url |-> <<"https://github.com/OpenZeppelin/openzeppelin-contracts">>,
         start_path |-> <<"docs">>, branches |-> "master" ] >>
Templates ==
    { [ sources |-> TemplateSources, start_page |-> <<"ROOT", "::", "index.adoc">>,
        urls |-> u ] : u \in { NoValue, "indexify" } }

Threw == <<>>       \* the result of a call that threw

\* getSource relative to the current directory instead of the repository
getSourceFromCwd(componentDir, roots) ==
    LET gitDir == findUp(roots)
    IN  IF gitDir = <<>> THEN Threw
        ELSE << [ url |-> dirname(gitDir[1]),
                  start_path |-> relative(Cwd, componentDir),
                  branches |-> "HEAD" ] >>

\* getSource that takes the current directory when there is no repository
getSourceNoThrow(componentDir, roots) ==
    LET gitDir == findUp(roots)
        repoDir == IF gitDir = <<>> THEN Cwd ELSE dirname(gitDir[1])
    IN  << [ url |-> repoDir, start_path |-> relative(repoDir, componentDir),
             branches |-> "HEAD" ] >>

getSource(componentDir, roots) ==
    LET gitDir == findUp(roots)
    IN  IF gitDir = <<>> THEN Threw
        ELSE LET repoDir == dirname(gitDir[1])
                 startPath == relative(repoDir, componentDir)
             IN  << [ url |-> repoDir, start_path |-> startPath,
                      branches |-> "HEAD" ] >>

\* yaml.safeLoad(fs.readFileSync(path.join(c, 'antora.yml'))) throws?
loadThrows(file) == file = <<>> \/ ~file[1].parsed

\* the start page taken from the last component
startPageOfLast(components) ==
    LET c == components[Len(components)]
    IN  << c.name, "::", Or(c.start_page, "index.adoc") >>

startPage(components) ==
    << components[1].name, "::", Or(components[1].start_page, "index.adoc") >>

sourcesOf(template, derived) == derived

\* makePlaybook: Threw, or the document written to local-playbook.yml.
\* `files` maps a directory to its antora.yml, `template` is <<>> when the
\* clone holds no playbook.yml.
makePlaybook(dirs, files, template, roots) ==
    IF \E i \in 1..Len(dirs) : loadThrows(files[dirs[i]]) THEN Threw
    ELSE IF template = <<>> THEN Threw
    ELSE IF \E i \in 1..Len(dirs) : getSource(dirs[i], roots) = Threw THEN Threw
    ELSE LET components == [i \in 1..Len(dirs) |-> files[dirs[i]][1]]
             derived == [i \in 1..Len(dirs) |-> getSource(dirs[i], roots)[1]]
         IN  << [ sources |-> sourcesOf(template[1], derived),
                  start_page |-> startPage(components),
                  urls |-> IF template[1].urls # NoValue THEN "default"
                           ELSE NoValue ] >>

(***************************************************************************)
(* The initial states: the command line and the file system the tool is    *)
(* started on.  The stub files matter to init alone and the cache          *)
(* directory to build and watch alone, so each is varied only there.       *)
(***************************************************************************)
Commands == { "init", "update-version", "build", "watch", "serve" }
Scaffold == { "init", "update-version" }

Watchers == 0..MaxDirs          \* 0: the source watcher; i: componentDirs[i]

NewProcess ==
    /\ pc = "main"
    /\ idx = 1
    /\ exitCode = -1
    /\ log = <<>>
    /\ failed = {}
    /\ rev1 = -1
    /\ rev2 = -1
    /\ pkgVersion = <<>>
    /\ docsVersion = <<>>
    /\ playbook = <<>>
    /\ gitRoots = {}
    /\ serverPc = "off"
    /\ portBusy = "unknown"
    /\ registered = 0
    /\ now = 0
    /\ timers = [w \in Watchers |-> {}]
    /\ timeout = [w \in Watchers |-> -1]
    /\ running = -1
    /\ lastEventAt = [w \in Watchers |-> -1]
    /\ burst = [w \in Watchers |-> 0]
    /\ actions = [w \in Watchers |-> 0]
    /\ blocked = [w \in Watchers |-> FALSE]

InitScaffold ==
    /\ command \in Scaffold
    /\ componentDirs \in DirLists
    /\ exact \in BOOLEAN
    /\ run = 1
    /\ cache = "absent"
    /\ cacheRev = 0
    /\ symlink = FALSE
    /\ localPlaybook = <<>>
    /\ cacheAtStart = cache
    /\ manifest \in { f \in [Dirs -> { <<>>, <<Tokens>>, <<Sdk>>, <<Garbage>>, <<Upgrades>> }] :
                        \A d \in Dirs : f[d] \in ManifestsOnDisk(d) }
    /\ nav \in [Dirs -> { <<>>, <<UserText>> }]
    /\ index \in { f \in [Dirs -> { <<>>, <<UserText>> }] :
                     \A d \in Dirs : f[d] # <<>> => nav[d] # <<>> }
    /\ NewProcess

InitPreview ==
    /\ command \in Commands \ Scaffold
    /\ componentDirs \in DirLists
    /\ exact = FALSE
    /\ run = 1
    /\ cache \in { "absent", "partial", "cloned" }
    /\ cacheRev = 0
    /\ symlink = (cache = "cloned")
    /\ localPlaybook = <<>>
    /\ cacheAtStart = cache
    /\ manifest \in { f \in [Dirs -> { <<>>, <<Tokens>>, <<Sdk>>, <<Garbage>>, <<Upgrades>> }] :
                        \A d \in Dirs : f[d] \in ManifestsOnDisk(d) }
    /\ nav = [d \in Dirs |-> <<>>]
    /\ index = [d \in Dirs |-> <<>>]
    /\ NewProcess

Init == InitScaffold \/ InitPreview

(***************************************************************************)
(* The main script body.                                                   *)
(***************************************************************************)
\* an uncaught exception ends the process with exit code 1
Throw ==
    /\ pc' = "crashed"
    /\ exitCode' = 1

\* the script body reached its end with nothing left on the event loop
End ==
    /\ pc' = "done"
    /\ exitCode' = 0

\* the first step of the else branch with the call of setupDocsDir left out
AfterDocsDirSkipSetup == "assemble"

\* the first step of the else branch: setupDocsDir(docsDir)
AfterDocsDir == "mkdir"

\* the command dispatch at the top of the script
Main ==
    /\ pc = "main"
    /\ pc' = IF command = "init" THEN "init"
             ELSE IF command = "update-version" THEN "update"
             ELSE AfterDocsDir
    /\ UNCHANGED <<cliVars, run, idx, exitCode, log, failed, rev1, rev2,
                   pkgVersion, docsVersion, playbook, gitRoots, cacheAtStart,
                   cacheVars, compVars, loopVars>>

\* one call of init(componentDir) by componentDirs.forEach(init)
InitDir ==
    /\ pc = "init"
    /\ \E v \in PackageVersions :
         LET d == componentDirs[idx]
             version == getDocsVersion(v, exact)
         IN  /\ pkgVersion' = v
             /\ docsVersion' = version
             /\ manifest' = [manifest EXCEPT
                               ![d] = writeIfMissing(@, initManifest(version))]
             /\ nav' = [nav EXCEPT ![d] = writeIfMissing(@, initNav)]
             /\ index' = [index EXCEPT ![d] = writeIfMissing(@, initIndex)]
    /\ log' = Append(log, "init")
    /\ idx' = idx + 1
    /\ IF idx = Len(componentDirs) THEN End
       ELSE UNCHANGED <<pc, exitCode>>
    /\ UNCHANGED <<cliVars, run, failed, rev1, rev2, playbook, gitRoots,
                   cacheAtStart, cacheVars, loopVars>>

\* one call of updateVersion(componentDir)
UpdateVersionDir ==
    /\ pc = "update"
    /\ LET d == componentDirs[idx]
       IN  IF loadThrows(manifest[d])
           THEN /\ Throw
                /\ UNCHANGED <<pkgVersion, docsVersion, manifest, idx>>
           ELSE /\ \E v \in PackageVersions :
                     /\ pkgVersion' = v
                     /\ docsVersion' = getDocsVersion(v, exact)
                     /\ manifest' = [manifest EXCEPT ![d] =
                          << [ @[1] EXCEPT !.version = getDocsVersion(v, exact) ] >>]
                /\ idx' = idx + 1
                /\ IF idx = Len(componentDirs) THEN End
                   ELSE UNCHANGED <<pc, exitCode>>
    /\ log' = Append(log, "update-version")
    /\ UNCHANGED <<cliVars, run, failed, rev1, rev2, playbook, gitRoots,
                   cacheAtStart, cacheVars, nav, index, loopVars>>

(***************************************************************************)
(* setupDocsDir.  proc.spawnSync returns whatever the exit status of the   *)
(* subprocess and the code does not read it; proc.execFileSync and the fs  *)
(* calls throw.                                                            *)
(***************************************************************************)
StatusOk == BOOLEAN         \* did the subprocess exit with status 0

\* fs.mkdirSync('build/site'), then the fs.existsSync(docsDir) branch
SetupMkdir ==
    /\ pc = "mkdir"
    /\ log' = Append(log, "mkdir")
    /\ pc' = IF cache # "absent" THEN "rev1" ELSE "clone"
    /\ UNCHANGED <<cliVars, run, idx, exitCode, failed, rev1, rev2, pkgVersion,
                   docsVersion, playbook, gitRoots, cacheAtStart, cacheVars,
                   compVars, loopVars>>

\* const rev1 = getDocsRevision(docsDir): throws where there is no checkout
SetupRev1 ==
    /\ pc = "rev1"
    /\ log' = Append(log, "rev-parse")
    /\ IF cache = "cloned"
       THEN /\ rev1' = cacheRev
            /\ pc' = "pull"
            /\ UNCHANGED exitCode
       ELSE /\ Throw
            /\ UNCHANGED rev1
    /\ UNCHANGED <<cliVars, run, idx, failed, rev2, pkgVersion, docsVersion,
                   playbook, gitRoots, cacheAtStart, cacheVars, compVars,
                   loopVars>>

\* proc.spawnSync('git', ['pull'])
SetupPull ==
    /\ pc = "pull"
    /\ log' = Append(log, "pull")
    /\ \E ok \in StatusOk :
         IF ok
         THEN /\ \E r \in cacheRev..MaxRev : cacheRev' = r
              /\ UNCHANGED failed
         ELSE /\ failed' = failed \cup { "pull" }
              /\ UNCHANGED cacheRev
    /\ pc' = "rev2"
    /\ UNCHANGED <<cliVars, run, idx, exitCode, rev1, rev2, pkgVersion,
                   docsVersion, playbook, gitRoots, cacheAtStart, cache,
                   symlink, localPlaybook, compVars, loopVars>>

\* the install decision with the comparison inverted
needsInstallSame(r1, r2) == r1 = r2

\* if (rev1 !== rev2)
needsInstall(r1, r2) == r1 # r2

\* const rev2 = getDocsRevision(docsDir), and the comparison
SetupRev2 ==
    /\ pc = "rev2"
    /\ log' = Append(log, "rev-parse")
    /\ rev2' = cacheRev
    /\ pc' = IF needsInstall(rev1, cacheRev) THEN "install" ELSE "assemble"
    /\ UNCHANGED <<cliVars, run, idx, exitCode, failed, rev1, pkgVersion,
                   docsVersion, playbook, gitRoots, cacheAtStart, cacheVars,
                   compVars, loopVars>>

\* proc.spawnSync('npx', ['yarn']) after a pull that moved the revision
SetupInstall ==
    /\ pc = "install"
    /\ log' = Append(log, "install")
    /\ \E ok \in StatusOk :
         failed' = IF ok THEN failed ELSE failed \cup { "install" }
    /\ pc' = "assemble"
    /\ UNCHANGED <<cliVars, run, idx, exitCode, rev1, rev2, pkgVersion,
                   docsVersion, playbook, gitRoots, cacheAtStart, cacheVars,
                   compVars, loopVars>>

\* proc.spawnSync('git', ['clone', ...]): a failed clone leaves nothing or
\* a directory without a checkout
SetupClone ==
    /\ pc = "clone"
    /\ log' = Append(log, "clone")
    /\ \E ok \in StatusOk :
         IF ok
         THEN /\ cache' = "cloned"
              /\ UNCHANGED failed
         ELSE /\ cache' \in { "absent", "partial" }
              /\ failed' = failed \cup { "clone" }
    /\ pc' = "cloneInstall"
    /\ UNCHANGED <<cliVars, run, idx, exitCode, rev1, rev2, pkgVersion,
                   docsVersion, playbook, gitRoots, cacheAtStart, cacheRev,
                   symlink, localPlaybook, compVars, loopVars>>

\* proc.spawnSync('npx', ['yarn']) after the clone: it cannot succeed in a
\* directory that is not there
SetupCloneInstall ==
    /\ pc = "cloneInstall"
    /\ log' = Append(log, "install")
    /\ \E ok \in StatusOk :
         /\ cache = "absent" => ~ok
         /\ failed' = IF ok THEN failed ELSE failed \cup { "install" }
    /\ pc' = "symlink"
    /\ UNCHANGED <<cliVars, run, idx, exitCode, rev1, rev2, pkgVersion,
                   docsVersion, playbook, gitRoots, cacheAtStart, cacheVars,
                   compVars, loopVars>>

\* fs.symlinkSync(path.resolve('build'), path.join(docsDir, 'build'))
SetupSymlink ==
    /\ pc = "symlink"
    /\ log' = Append(log, "symlink")
    /\ IF cache = "absent" \/ symlink
       THEN /\ Throw
            /\ UNCHANGED symlink
       ELSE /\ symlink' = TRUE
            /\ pc' = "assemble"
            /\ UNCHANGED exitCode
    /\ UNCHANGED <<cliVars, run, idx, failed, rev1, rev2, pkgVersion,
                   docsVersion, playbook, gitRoots, cacheAtStart, cache,
                   cacheRev, localPlaybook, compVars, loopVars>>

(***************************************************************************)
(* const playbook = makePlaybook(docsDir, componentDirs)                   *)
(***************************************************************************)
Assemble ==
    /\ pc = "assemble"
    /\ log' = Append(log, "makePlaybook")
    /\ \E roots \in GitLayouts, t \in Templates :
         LET template == IF cache = "cloned" THEN << t >> ELSE <<>>
             written == makePlaybook(componentDirs, manifest, template, roots)
         IN  /\ gitRoots' = roots
             /\ IF written = Threw
                THEN /\ Throw
                     /\ UNCHANGED <<localPlaybook, playbook>>
                ELSE /\ localPlaybook' = written
                     /\ playbook' = << "local-playbook.yml" >>
                     /\ pc' = "dispatch"
                     /\ UNCHANGED exitCode
    /\ UNCHANGED <<cliVars, run, idx, failed, rev1, rev2, pkgVersion,
                   docsVersion, cacheAtStart, cache, cacheRev, symlink,
                   compVars, loopVars>>

(***************************************************************************)
(* The build command.                                                      *)
(***************************************************************************)
\* build(docsDir, playbook): the status of the site generator is not read
Build ==
    /\ pc = "dispatch"
    /\ command = "build"
    /\ log' = Append(log, "build")
    /\ pc' = "report"
    /\ UNCHANGED <<cliVars, run, idx, exitCode, failed, rev1, rev2, pkgVersion,
                   docsVersion, playbook, gitRoots, cacheAtStart, cacheVars,
                   compVars, loopVars>>

\* console.error('The site is available at ./build/site'), end of script
Report ==
    /\ pc = "report"
    /\ log' = Append(log, "report")
    /\ End
    /\ UNCHANGED <<cliVars, run, idx, failed, rev1, rev2, pkgVersion,
                   docsVersion, playbook, gitRoots, cacheAtStart, cacheVars,
                   compVars, loopVars>>

\* console.error(`Unknown command ${command}`); process.exit(1)
UnknownCommand ==
    /\ pc = "dispatch"
    /\ command \notin { "build", "watch" }
    /\ pc' = "exited"
    /\ exitCode' = 1
    /\ UNCHANGED <<cliVars, run, idx, log, failed, rev1, rev2, pkgVersion,
                   docsVersion, playbook, gitRoots, cacheAtStart, cacheVars,
                   compVars, loopVars>>

(***************************************************************************)
(* The watch command.                                                      *)
(*                                                                         *)
(* startServer runs up to its first await inside the script body, which    *)
(* goes on to register the debounced watchers; everything after that is a  *)
(* callback of the event loop, and a callback runs only while no triggered *)
(* action (a spawnSync) blocks the process.                                *)
(***************************************************************************)
\* startServer(port) up to the await, the source watcher (watcher 0) and
\* componentDirs.forEach(c => watch(c, docsDir, playbook))
WatchStart ==
    /\ pc = "dispatch"
    /\ command = "watch"
    /\ log' = log \o <<"startServer", "watch">>
    /\ serverPc' = "checking"
    /\ registered' = 1 + Len(componentDirs)
    /\ pc' = "loop"
    /\ UNCHANGED <<cliVars, run, idx, exitCode, failed, rev1, rev2, pkgVersion,
                   docsVersion, playbook, gitRoots, cacheAtStart, cacheVars,
                   compVars, portBusy, now, timers, timeout, running,
                   lastEventAt, burst, actions, blocked>>

\* the event loop with the triggered actions started by proc.spawn, which
\* returns at once
idleSpawn(r) == TRUE

\* proc.spawnSync returns when the subprocess has exited: while the
\* triggered action of watcher r runs (r # -1) no callback is called
idle(r) == r = -1

\* the branch of startServer with the test of portBusy left out
afterPortCheckListen(busy) == "listening"

\* if (portBusy) error(...) else server.listen(port)
afterPortCheck(busy) == IF busy THEN "exit" ELSE "listening"

\* the continuation of startServer after `await isPortReachable(port)`
PortCheck ==
    /\ pc = "loop"
    /\ serverPc = "checking"
    /\ idle(running)
    /\ \E busy \in BOOLEAN :
         /\ portBusy' = IF busy THEN "busy" ELSE "free"
         /\ IF afterPortCheck(busy) = "exit"
            THEN /\ pc' = "exited"
                 /\ exitCode' = 1
                 /\ UNCHANGED <<serverPc, log>>
            ELSE /\ serverPc' = "listening"
                 /\ log' = Append(log, "listen")
                 /\ UNCHANGED <<pc, exitCode>>
    /\ UNCHANGED <<cliVars, run, idx, failed, rev1, rev2, pkgVersion,
                   docsVersion, playbook, gitRoots, cacheAtStart, cacheVars,
                   compVars, registered, now, timers, timeout, running,
                   lastEventAt, burst, actions, blocked>>

\* debounce without the clearTimeout
debounceNoClear(pending, handle, t) ==
    [ timers |-> pending \cup { t + Delay }, timeout |-> t + Delay ]

\* the function debounce returns, called at time t: `pending` are the due
\* times of the timers of this closure, `handle` its variable timeout
debounce(pending, handle, t) ==
    [ timers |-> (pending \ { handle }) \cup { t + Delay },
      timeout |-> t + Delay ]

\* chokidar emits an event of watcher w: the debounced listener runs
Event(w) ==
    /\ pc = "loop"
    /\ w < registered
    /\ idle(running)
    /\ timers[w] # {} => burst[w] < MaxBurst
    /\ LET d == debounce(timers[w], timeout[w], now)
       IN  /\ timers' = [timers EXCEPT ![w] = d.timers]
           /\ timeout' = [timeout EXCEPT ![w] = d.timeout]
    /\ lastEventAt' = [lastEventAt EXCEPT ![w] = now]
    /\ burst' = [burst EXCEPT ![w] = IF timers[w] = {} THEN 1 ELSE @ + 1]
    /\ actions' = [actions EXCEPT ![w] = IF timers[w] = {} THEN 0 ELSE @]
    /\ blocked' = [blocked EXCEPT ![w] = FALSE]
    /\ UNCHANGED <<cliVars, procVars, cacheVars, compVars, serverPc, portBusy,
                   registered, now, running>>

\* a timer of watcher w expires: fn.apply(this, args) starts the triggered
\* action, a spawnSync (npm run prepare-docs, or build) that blocks the process
Fire(w) ==
    /\ pc = "loop"
    /\ w < registered
    /\ idle(running)
    /\ \E due \in timers[w] :
         /\ due <= now
         /\ timers' = [timers EXCEPT ![w] = @ \ { due }]
    /\ running' = w
    /\ actions' = [actions EXCEPT ![w] = @ + 1]
    /\ blocked' = [v \in Watchers |->
                     IF v # w /\ timers[v] # {} THEN TRUE ELSE blocked[v]]
    /\ UNCHANGED <<cliVars, procVars, cacheVars, compVars, serverPc, portBusy,
                   registered, now, timeout, lastEventAt, burst>>

\* the subprocess of the triggered action exits: spawnSync returns
ActionExit ==
    /\ pc = "loop"
    /\ running # -1
    /\ running' = -1
    /\ UNCHANGED <<cliVars, procVars, cacheVars, compVars, serverPc, portBusy,
                   registered, now, timers, timeout, lastEventAt, burst,
                   actions, blocked>>

\* all pending timers
Pending == UNION { timers[w] : w \in Watchers }

\* time passes.  While the event loop is idle a timer runs when it is due,
\* so the clock does not pass a pending deadline; while a triggered action
\* blocks the process it does.
Tick ==
    /\ pc = "loop"
    /\ \E t \in { now + Quantum } \cup { due \in Pending : due > now } :
         /\ t <= MaxTime
         /\ running = -1 => \A due \in Pending : t <= due
         /\ now' = t
    /\ UNCHANGED <<cliVars, procVars, cacheVars, compVars, serverPc, portBusy,
                   registered, timers, timeout, running, lastEventAt, burst,
                   actions, blocked>>

(***************************************************************************)
(* Spec: one invocation, any command, on any of the file systems of Init,  *)
(* up to the point where the event loop of watch mode takes over (the      *)
(* environment emits no file system event).                                *)
(***************************************************************************)
Next ==
    \/ Main
    \/ InitDir
    \/ UpdateVersionDir
    \/ SetupMkdir
    \/ SetupRev1
    \/ SetupPull
    \/ SetupRev2
    \/ SetupInstall
    \/ SetupClone
    \/ SetupCloneInstall
    \/ SetupSymlink
    \/ Assemble
    \/ Build
    \/ Report
    \/ UnknownCommand
    \/ WatchStart
    \/ PortCheck

Spec == Init /\ [][Next]_vars

(***************************************************************************)
(* SpecWatch: the event loop of watch mode.  It starts where the script    *)
(* body of a watch invocation has assembled the playbook of an up-to-date  *)
(* clone, a state that Spec reaches.                                       *)
(***************************************************************************)
WatchDirLists == { << <<"docs">> >>, << <<"docs">>, <<"..", "api">> >> }
WatchRoots == { <<"/", "work", "repo">> }
WatchTemplate == [ sources |-> TemplateSources,
                   start_page |-> <<"ROOT", "::", "index.adoc">>,
                   urls |-> "indexify" ]

InitWatch ==
    /\ command = "watch"
    /\ componentDirs \in WatchDirLists
    /\ exact = FALSE
    /\ run = 1
    /\ pc = "dispatch"
    /\ idx = 1
    /\ exitCode = -1
    /\ log = <<"mkdir", "rev-parse", "pull", "rev-parse", "makePlaybook">>
    /\ failed = {}
    /\ rev1 = 0
    /\ rev2 = 0
    /\ pkgVersion = <<>>
    /\ docsVersion = <<>>
    /\ playbook = << "local-playbook.yml" >>
    /\ gitRoots = WatchRoots
    /\ cacheAtStart = "cloned"
    /\ cache = "cloned"
    /\ cacheRev = 0
    /\ symlink = TRUE
    /\ manifest = [d \in Dirs |-> IF d = <<"docs">> THEN <<Tokens>> ELSE <<Upgrades>>]
    /\ localPlaybook = makePlaybook(componentDirs, manifest, <<WatchTemplate>>, WatchRoots)
    /\ nav = [d \in Dirs |-> <<>>]
    /\ index = [d \in Dirs |-> <<>>]
    /\ serverPc = "off"
    /\ portBusy = "unknown"
    /\ registered = 0
    /\ now = 0
    /\ timers = [w \in Watchers |-> {}]
    /\ timeout = [w \in Watchers |-> -1]
    /\ running = -1
    /\ lastEventAt = [w \in Watchers |-> -1]
    /\ burst = [w \in Watchers |-> 0]
    /\ actions = [w \in Watchers |-> 0]
    /\ blocked = [w \in Watchers |-> FALSE]

NextWatch ==
    \/ WatchStart
    \/ PortCheck
    \/ \E w \in Watchers : Event(w)
    \/ \E w \in Watchers : Fire(w)
    \/ ActionExit
    \/ Tick

SpecWatch == InitWatch /\ [][NextWatch]_vars

(***************************************************************************)
(* SpecCli: the scaffolding commands (init, update-version) invoked one    *)
(* after the other on the same component directories; the file system      *)
(* stays, the process is new.                                              *)
(***************************************************************************)
Rerun ==
    /\ pc \in { "done", "crashed" }
    /\ run < MaxRuns
    /\ run' = run + 1
    /\ command' \in Scaffold
    /\ exact' \in BOOLEAN
    /\ pc' = "main"
    /\ idx' = 1
    /\ exitCode' = -1
    /\ log' = <<>>
    /\ pkgVersion' = <<>>
    /\ docsVersion' = <<>>
    /\ UNCHANGED <<componentDirs, failed, rev1, rev2, playbook, gitRoots,
                   cacheAtStart, cacheVars, compVars, loopVars>>

NextCli ==
    \/ Main
    \/ InitDir
    \/ UpdateVersionDir
    \/ Rerun

SpecCli == InitScaffold /\ [][NextCli]_vars

(***************************************************************************)
(* Properties.                                                             *)
(***************************************************************************)
Range(f) == { f[i] : i \in DOMAIN f }

IsPrefix(a, b) == Len(a) <= Len(b) /\ SubSeq(b, 1, Len(a)) = a

\* a step in which a timer of watcher w runs and starts its action
FireStep(w) == running = -1 /\ running' = w

\* a step in which the debounced listener of watcher w is called
EventStep(w) ==
    \/ burst'[w] > burst[w]
    \/ timers[w] = {} /\ timers'[w] # {}

\* C1 as stated: a burst of events of a watcher, each less than 500 after
\* the one before, triggers exactly one action, fired 500 after the last
\* event; an event more than 500 after the one before finds the action of
\* the earlier event triggered (two events, two actions).
C1_DebounceAsStated ==
    [][\A w \in Watchers :
         /\ FireStep(w) =>
              /\ actions[w] = 0
              /\ now = lastEventAt[w] + Delay
         /\ (EventStep(w) /\ lastEventAt[w] >= 0 /\ now > lastEventAt[w] + Delay)
              => timers[w] = {} /\ actions[w] = 1
      ]_vars

\* C1 amended: every event leaves exactly one timer pending, its burst
\* triggers exactly one action, no earlier than 500 after the last event
\* and exactly 500 after it unless the action of another watcher started in
\* between; an event more than 500 after the one before finds the earlier
\* action triggered, unless the action of another watcher started in between.
C1_Debounce ==
    [][\A w \in Watchers :
         /\ FireStep(w) =>
              /\ actions[w] = 0
              /\ timers'[w] = {}
              /\ now >= lastEventAt[w] + Delay
              /\ ~blocked[w] => now = lastEventAt[w] + Delay
         /\ EventStep(w) =>
              /\ timers'[w] = { now + Delay }
              /\ (lastEventAt[w] >= 0 /\ now > lastEventAt[w] + Delay /\ ~blocked[w])
                   => timers[w] = {} /\ actions[w] = 1
      ]_vars

\* a burst of more than one event has triggered its one action, 500 after
\* its last event
C1_Witness ==
    \E w \in Watchers :
        /\ running = w
        /\ burst[w] >= 2
        /\ actions[w] = 1
        /\ timers[w] = {}
        /\ now = lastEventAt[w] + Delay

\* C2: when the port check reports the port busy the process has exited
\* with code 1 and no server was started
C2_PortBusyExits ==
    portBusy = "busy" =>
        /\ pc = "exited"
        /\ exitCode = 1
        /\ serverPc # "listening"
        /\ "listen" \notin Range(log)

\* the port was reported busy after the watchers were at work
C2_Witness ==
    /\ portBusy = "busy"
    /\ exitCode = 1
    /\ now > 0

SyncOps == { "mkdir", "rev-parse", "pull", "install", "clone", "symlink" }
UseOps == { "build", "report", "startServer", "watch", "listen" }
CompleteSetups ==
    { <<"mkdir", "rev-parse", "pull", "rev-parse">>,
      <<"mkdir", "rev-parse", "pull", "rev-parse", "install">>,
      <<"mkdir", "clone", "install", "symlink">> }

\* C3: makePlaybook starts only after setupDocsDir has run to its end, and
\* a build, the server and the watchers start only after makePlaybook has
\* returned
C3_Ordering ==
    \A i \in 1..Len(log) :
        /\ log[i] = "makePlaybook" => SubSeq(log, 1, i - 1) \in CompleteSetups
        /\ log[i] \in SyncOps => "makePlaybook" \notin Range(SubSeq(log, 1, i - 1))
        /\ log[i] \in UseOps =>
              /\ "makePlaybook" \in Range(SubSeq(log, 1, i - 1))
              /\ playbook # <<>>

\* a watch invocation went through all three stages
C3_Witness ==
    /\ command = "watch"
    /\ "pull" \in Range(log)
    /\ serverPc = "listening"
    /\ registered > 0

\* C4: for the version X.Y.Z the result is X.Y when X is "0" or the exact
\* flag is set and X.x otherwise, the four examples included
C4_Version ==
    /\ \A v \in VersionParts :
          pkgVersion = SemVer(v) =>
              docsVersion = IF v[1] = <<"0">> \/ exact
                            THEN v[1] \o <<".">> \o v[2]
                            ELSE v[1] \o <<".", "x">>
    /\ getDocsVersion(<<"0", ".", "5", ".", "2">>, FALSE) = <<"0", ".", "5">>
    /\ getDocsVersion(<<"1", ".", "5", ".", "2">>, FALSE) = <<"1", ".", "x">>
    /\ getDocsVersion(<<"1", ".", "5", ".", "2">>, TRUE) = <<"1", ".", "5">>
    /\ getDocsVersion(<<"2", ".", "0", ".", "0">>, FALSE) = <<"2", ".", "x">>

\* 1.5.2 was resolved with the exact flag set
C4_Witness ==
    /\ pkgVersion = <<"1", ".", "5", ".", "2">>
    /\ exact
    /\ docsVersion = <<"1", ".", "5">>

\* C5: a call of init leaves every file that exists as it is and does not
\* throw; on a directory that holds the three files it changes nothing
C5_InitIdempotent ==
    [][pc = "init" =>
         /\ \A d \in Dirs :
              /\ manifest[d] # <<>> => manifest'[d] = manifest[d]
              /\ nav[d] # <<>> => nav'[d] = nav[d]
              /\ index[d] # <<>> => index'[d] = index[d]
         /\ pc' # "crashed"
         /\ exitCode' \in { -1, 0 }
         /\ LET d == componentDirs[idx]
            IN  (manifest[d] # <<>> /\ nav[d] # <<>> /\ index[d] # <<>>)
                    => UNCHANGED compVars
      ]_vars

\* a second init, resolving another version, kept the manifest of the first
C5_Witness ==
    /\ run = 2
    /\ command = "init"
    /\ pc = "done"
    /\ exitCode = 0
    /\ \E d \in Range(componentDirs) :
          /\ manifest[d] # <<>>
          /\ manifest[d][1].name = basename(Cwd)
          /\ manifest[d][1].version # docsVersion
          /\ nav[d] = <<UserText>>

\* the playbook this invocation wrote
Written == localPlaybook[1]

\* C6: the start page is "<name>::<start_page>" of the first component,
\* with index.adoc where that manifest has no start page (none, or an
\* empty one)
C6_StartPage ==
    playbook # <<>> =>
        LET first == manifest[componentDirs[1]][1]
        IN  Written.start_page =
                << first.name, "::",
                   IF first.start_page \in { NoValue, "" } THEN "index.adoc"
                   ELSE first.start_page >>

\* two different components, the first one names its start page
C6_Witness ==
    /\ playbook # <<>>
    /\ Len(componentDirs) = 2
    /\ componentDirs[1] # componentDirs[2]
    /\ Written.start_page = <<"tokens", "::", "guide.adoc">>

\* the nearest directory at or above the current one with a .git directory
IsRoot(r) ==
    /\ r \in gitRoots
    /\ IsPrefix(r, Cwd)
    /\ \A q \in gitRoots : IsPrefix(q, Cwd) => Len(q) <= Len(r)

\* a relative path in its shortest form from `root`
Shortest(root, p) ==
    LET k == Cardinality({ i \in 1..Len(p) : p[i] = ".." })
    IN  /\ \A i \in 1..Len(p) : p[i] # "." /\ (p[i] = ".." => i <= k)
        /\ k <= Len(root) - 1
        /\ (k > 0 /\ Len(p) > k) => p[k + 1] # root[Len(root) - k + 1]

\* C7: content.sources holds one source per directory, in order, each with
\* the repository root as url, the path from that root to the directory as
\* start_path and HEAD as branches, and nothing of the template's sources
C7_Sources ==
    playbook # <<>> =>
        /\ Len(Written.sources) = Len(componentDirs)
        /\ \A i \in 1..Len(componentDirs) :
              LET src == Written.sources[i]
              IN  /\ IsRoot(src.url)
                  /\ src.branches = "HEAD"
                  /\ Shortest(src.url, src.start_path)
                  /\ join(src.url, src.start_path) = resolve(componentDirs[i])
                  /\ src \notin Range(TemplateSources)

\* the same directory given twice, below a repository root above the
\* current directory
C7_Witness ==
    /\ playbook # <<>>
    /\ componentDirs = << <<"docs">>, <<"docs">> >>
    /\ Written.sources[1].url = <<"/", "work", "repo">>
    /\ Written.sources[2].start_path = <<"pkg", "docs">>

\* C8 as stated: once a subprocess of the synchronizer has exited non-zero
\* the invocation does not report success and does not exit with code 0
C8_FailureSurfaced ==
    failed # {} =>
        /\ "report" \notin Range(log)
        /\ exitCode # 0

\* C9: with a manifest that cannot be loaded, or no repository root, the
\* assembly throws with nothing written, and nothing is built, served or
\* watched
C9_AssemblyFails ==
    (/\ command \notin Scaffold
     /\ \/ \E i \in 1..Len(componentDirs) : loadThrows(manifest[componentDirs[i]])
        \/ "makePlaybook" \in Range(log) /\ findUp(gitRoots) = <<>>)
    =>  /\ playbook = <<>>
        /\ localPlaybook = <<>>
        /\ Range(log) \cap UseOps = {}
        /\ serverPc = "off"
        /\ registered = 0
        /\ "makePlaybook" \in Range(log) => pc = "crashed" /\ exitCode = 1

\* the manifests load and the clone is there, but no repository is found
C9_Witness ==
    /\ pc = "crashed"
    /\ "makePlaybook" \in Range(log)
    /\ cache = "cloned"
    /\ \A i \in 1..Len(componentDirs) : ~loadThrows(manifest[componentDirs[i]])
    /\ findUp(gitRoots) = <<>>

\* the operations of setupDocsDir on the clone, in order
SetupLog ==
    LET ops == SelectSeq(log, LAMBDA op : op \in SyncOps \ { "mkdir" })
    IN  ops
SetupDone == "makePlaybook" \in Range(log) \/ pc \in { "assemble", "dispatch" }

\* C10: on an existing cache directory: revision, pull, revision, and the
\* install exactly when the revisions differ, never a clone or a symlink;
\* on a missing one: clone, install, symlink
C10_Synchronizer ==
    command \notin Scaffold =>
        IF cacheAtStart # "absent"
        THEN /\ IsPrefix(SetupLog, <<"rev-parse", "pull", "rev-parse", "install">>)
             /\ SetupDone =>
                  SetupLog = IF rev1 # rev2
                             THEN <<"rev-parse", "pull", "rev-parse", "install">>
                             ELSE <<"rev-parse", "pull", "rev-parse">>
        ELSE /\ IsPrefix(SetupLog, <<"clone", "install", "symlink">>)
             /\ SetupDone => SetupLog = <<"clone", "install", "symlink">> /\ symlink

\* the pull moved the revision and the install ran
C10_Witness ==
    /\ cacheAtStart = "cloned"
    /\ rev1 # rev2
    /\ pc = "assemble"
    /\ log = <<"mkdir", "rev-parse", "pull", "rev-parse", "install">>

\* C11: at most one triggered action executes at a time: an action starts
\* only in a step taken while none is running, also when its timer fell due
\* earlier, and a running action is followed by no other before it has exited
C11_OneActionAtATime ==
    [][/\ \A w \in Watchers :
            actions'[w] > actions[w] => (running = -1 /\ running' = w)
       /\ running # -1 => running' \in { running, -1 }
      ]_vars

\* the timer of one watcher fell due while the action of another was
\* running, and has not run
C11_Witness ==
    /\ running # -1
    /\ \E w \in Watchers :
          /\ w # running
          /\ \E due \in timers[w] : due < now

====
